---- MODULE Spec2Model ----
(***************************************************************************)
(* Model of the notation font generator, tools/fontgen/generate.py:        *)
(* load_atom_spec, assign_codepoints, validate_layout, build_font with its *)
(* composite helpers, and the main pipeline that sequences them.           *)
(***************************************************************************)
EXTENDS Integers, Sequences, FiniteSets, TLC

\* ------------------------------------------------------------------------
\* Bounds of the model
\* ------------------------------------------------------------------------
MaxSystems == 2
MaxChars == 2
MaxSymbols == 2
MaxLayoutAtoms == 3
MaxNotoChars == 3
MaxAllChars == 4

\* ------------------------------------------------------------------------
\* Program constants
\* ------------------------------------------------------------------------
PUA_FIRST == 57344
PUA_CEILING == 63743
MUSIC_FIRST == 119040
MUSIC_LAST == 119295
NUM_VARIANTS == 4

\* Python's None in an integer field (codepoints are never negative).
None == -1

\* ------------------------------------------------------------------------
\* Sequence helpers
\* ------------------------------------------------------------------------
Range(s) == {s[i] : i \in DOMAIN s}

SeqsUpTo(S, n) == UNION {[1..k -> S] : k \in 0..n}

RECURSIVE Concat(_)
Concat(ss) == IF ss = <<>> THEN <<>> ELSE Head(ss) \o Concat(Tail(ss))

SeqMin(s) == CHOOSE x \in Range(s) : \A y \in Range(s) : x <= y
SeqMax(s) == CHOOSE x \in Range(s) : \A y \in Range(s) : x >= y

\* ------------------------------------------------------------------------
\* Input domains
\* ------------------------------------------------------------------------
SystemNames == <<"number", "western", "sargam", "doremi">>
CharPool == {"1", "C"}
PuaStarts == {57344, 57840, 57948, 63736, 63740, 63744}
SmuflCodepoints == {None, 57345, 57952}
CodepointOffsets == {0, 1}

RECURSIVE TotalLen(_)
TotalLen(ss) == IF ss = <<>> THEN 0 ELSE Len(Head(ss)) + TotalLen(Tail(ss))

\* notation_systems of an AtomSpec: a dict, so the names are distinct; the
\* i-th entry in insertion order carries the i-th name.  MaxChars bounds the
\* number of characters over all systems together.
NotationSystems ==
    {[i \in DOMAIN cs |-> [system_name |-> SystemNames[i], characters |-> cs[i]]] :
        cs \in {x \in SeqsUpTo(SeqsUpTo(CharPool, MaxChars), MaxSystems) :
                    TotalLen(x) <= MaxChars}}

\* Glyph names are sequences of characters, so that a prefix can be tested.
StartsWith(name, prefix) ==
    Len(name) >= Len(prefix) /\ SubSeq(name, 1, Len(prefix)) = prefix

Accidental == <<"a", "c", "c", "i", "d", "e", "n", "t", "a", "l">>
Barline == <<"b", "a", "r", "l", "i", "n", "e">>
Bracket == <<"b", "r", "a", "c", "k", "e", "t">>
ReversedBracket == <<"r", "e", "v", "e", "r", "s", "e", "d", "B", "r", "a", "c", "k", "e", "t">>
Uni266 == <<"u", "n", "i", "2", "6", "6">>
UniE0 == <<"u", "n", "i", "E", "0">>
Ornament == <<"o", "r", "n", "a", "m", "e", "n", "t">>

\* The symbol every symbol definition of the allocation inputs names.
AccidentalSharp == Accidental \o <<"S", "h", "a", "r", "p">>

\* One entry of smufl_symbols in atoms.yaml.
SymbolDef(smufl_codepoint, codepoint_offset) ==
    [glyph_name |-> AccidentalSharp, label |-> "Sharp",
     smufl_codepoint |-> smufl_codepoint, codepoint_offset |-> codepoint_offset]

SymbolDefLists ==
    {[i \in DOMAIN defs |-> SymbolDef(defs[i][1], defs[i][2])] :
        defs \in SeqsUpTo(SmuflCodepoints \X CodepointOffsets, MaxSymbols)}

\* SMuFLSymbol(**symbol_def): assigned_codepoint defaults to None.
SMuFLSymbol(symbol_def) ==
    [glyph_name |-> symbol_def.glyph_name,
     label |-> symbol_def.label,
     smufl_codepoint |-> symbol_def.smufl_codepoint,
     codepoint_offset |-> symbol_def.codepoint_offset,
     assigned_codepoint |-> None]

SymbolLists ==
    {[i \in DOMAIN defs |-> SMuFLSymbol(defs[i])] : defs \in SymbolDefLists}

\* geometry block of atoms.yaml; scale in percent.
DefaultGeometry ==
    [dot_above_gap |-> 50, dot_below_gap |-> 50, accidental_scale |-> 100,
     accidental_x_offset |-> 0, accidental_y_offset |-> 0]

\* accidental_composites.types of atoms.yaml, in document order: the Noto
\* Music codepoint of the accidental (None when absent) and the parsed
\* "0x.... - 0x...." range (<<>> when absent).
SharpType == [name |-> "sharp", smufl_symbol |-> 119088, range |-> <<57840, 57886>>]
FlatType == [name |-> "flat", smufl_symbol |-> 119085, range |-> <<57888, 57934>>]
DefaultAccidentals == [types |-> <<SharpType, FlatType>>]

\* expected_order: ''.join(''.join(chars) for chars in notation_systems.values())
ExpectedOrder(notation_systems) ==
    Concat([i \in DOMAIN notation_systems |-> notation_systems[i].characters])

AtomSpecs ==
    {[notation_systems |-> ns, smufl_symbols |-> sy, geometry |-> DefaultGeometry,
      character_order |-> ExpectedOrder(ns), pua_start |-> p,
      accidental_composites |-> DefaultAccidentals] :
        ns \in NotationSystems, sy \in SymbolLists, p \in PuaStarts}

\* ------------------------------------------------------------------------
\* State
\* ------------------------------------------------------------------------
VARIABLES
    pc,          \* position of the run
    spec,        \* the AtomSpec object
    layout,      \* the CodepointLayout returned by assign_codepoints
    raised,      \* exception raised by the last stage, "none" if it returned
    golden,      \* note atoms of an earlier run kept as golden snapshot
    extended,    \* index of the system a character was appended to, 0 if none
    config,      \* the parsed atoms.yaml document
    args,        \* command line flags
    trace,       \* stages of main in call order, each with its outcome
    written,     \* output files written so far
    exit_status, \* exit status of main, Running until it ends
    mapping,     \* result of build_mapping_json
    fontfiles,   \* glyphs of the source fonts on disk
    font,        \* the FontForge font being built: codepoint -> glyph
    idx,         \* loop position inside build_font and its helpers
    report,      \* violations named by the error validate_layout raised
    previous     \* outcome of an earlier assign_codepoints call on spec

harnessVars == <<golden, extended, previous, report>>
mainVars == <<config, args, trace, written, exit_status, mapping, fontfiles, font, idx>>
vars == <<pc, spec, layout, raised, golden, extended, config, args, trace, written,
          exit_status, mapping, fontfiles, font, idx, report, previous>>

Running == -1

NoLayout == [note_atoms |-> <<>>, symbols |-> <<>>,
             notes_range |-> <<None, None>>, symbols_range |-> <<None, None>>]

\* ------------------------------------------------------------------------
\* Stage 1: load_atom_spec
\* ------------------------------------------------------------------------
NoSpec == [notation_systems |-> <<>>, smufl_symbols |-> <<>>,
           geometry |-> DefaultGeometry, character_order |-> <<>>,
           pua_start |-> None, accidental_composites |-> [types |-> <<>>]]

\* notation_systems[system_name] = characters on an insertion-ordered dict:
\* a name already present keeps its position and takes the new value.
DictSet(dict, system_name, characters) ==
    IF \E i \in DOMAIN dict : dict[i].system_name = system_name
    THEN [i \in DOMAIN dict |->
            IF dict[i].system_name = system_name
            THEN [system_name |-> system_name, characters |-> characters]
            ELSE dict[i]]
    ELSE Append(dict, [system_name |-> system_name, characters |-> characters])

RECURSIVE ExtractNotationSystems(_, _)
ExtractNotationSystems(system_defs, dict) ==
    IF system_defs = <<>> THEN dict
    ELSE ExtractNotationSystems(Tail(system_defs),
            DictSet(dict, Head(system_defs).system_name, Head(system_defs).characters))

\* The exception raised ("none" if it returned) and the AtomSpec returned.
LoadAtomSpec(cfg) ==
    LET notation_systems == ExtractNotationSystems(cfg.notation_systems, <<>>)
        character_order == cfg.character_order
        expected_order == ExpectedOrder(notation_systems)
    IN IF character_order # expected_order
       THEN [raised |-> "ValueError", spec |-> NoSpec]
       ELSE [raised |-> "none",
             spec |-> [notation_systems |-> notation_systems,
                       smufl_symbols |-> [i \in DOMAIN cfg.smufl_symbols |->
                                            SMuFLSymbol(cfg.smufl_symbols[i])],
                       geometry |-> cfg.geometry,
                       character_order |-> character_order,
                       pua_start |-> cfg.pua_start,
                       accidental_composites |-> cfg.accidental_composites]]

\* ------------------------------------------------------------------------
\* Stage 2: assign_codepoints
\* ------------------------------------------------------------------------
\* Mutant: the counter is advanced before the atom is created.
VariantAtomsIncrementFirst(system_name, char, cp) ==
    [v \in 1..NUM_VARIANTS |->
        [system |-> system_name, character |-> char,
         variant_index |-> v - 1, assigned_codepoint |-> cp + v]]

VariantAtoms(system_name, char, cp) ==
    [v \in 1..NUM_VARIANTS |->
        [system |-> system_name, character |-> char,
         variant_index |-> v - 1, assigned_codepoint |-> cp + (v - 1)]]

\* Mutant: the characters of a system are walked from the last to the first.
RECURSIVE CharLoopReversed(_, _, _)
CharLoopReversed(system_name, characters, cp) ==
    IF characters = <<>> THEN <<>>
    ELSE VariantAtoms(system_name, characters[Len(characters)], cp)
         \o CharLoopReversed(system_name, SubSeq(characters, 1, Len(characters) - 1),
                             cp + NUM_VARIANTS)

RECURSIVE CharLoop(_, _, _)
CharLoop(system_name, characters, cp) ==
    IF characters = <<>> THEN <<>>
    ELSE VariantAtoms(system_name, Head(characters), cp)
         \o CharLoop(system_name, Tail(characters), cp + NUM_VARIANTS)

RECURSIVE SystemLoop(_, _)
SystemLoop(systems, cp) ==
    IF systems = <<>> THEN <<>>
    ELSE LET atoms == CharLoop(Head(systems).system_name, Head(systems).characters, cp)
         IN atoms \o SystemLoop(Tail(systems), cp + Len(atoms))

\* Mutant: the codepoint_offset of the symbol is added to its codepoint.
AssignSymbolsWithOffset(smufl_symbols) ==
    [i \in DOMAIN smufl_symbols |->
        [smufl_symbols[i] EXCEPT !.assigned_codepoint =
            smufl_symbols[i].smufl_codepoint + smufl_symbols[i].codepoint_offset]]

\* Mutant: a symbol that already carries an assignment is moved up by one.
AssignSymbolsShiftingAssigned(smufl_symbols) ==
    [i \in DOMAIN smufl_symbols |->
        [smufl_symbols[i] EXCEPT !.assigned_codepoint =
            IF @ = None THEN smufl_symbols[i].smufl_codepoint
            ELSE smufl_symbols[i].smufl_codepoint + 1]]

AssignSymbols(smufl_symbols) ==
    [i \in DOMAIN smufl_symbols |->
        [smufl_symbols[i] EXCEPT !.assigned_codepoint = smufl_symbols[i].smufl_codepoint]]

SymbolsRange(smufl_symbols) ==
    LET symbol_cps == [i \in DOMAIN smufl_symbols |-> smufl_symbols[i].smufl_codepoint]
    IN IF smufl_symbols = <<>> THEN <<None, None>>
       ELSE <<SeqMin(symbol_cps), SeqMax(symbol_cps)>>

Overflow(cp) == cp > PUA_CEILING

\* Mutant: the symbols are packed into the slots that follow the notes.
AssignCodepointsPacked(s) ==
    LET start == s.pua_start
        note_atoms == SystemLoop(s.notation_systems, start)
        cp == start + Len(note_atoms)
        symbols == [i \in DOMAIN s.smufl_symbols |->
                       [s.smufl_symbols[i] EXCEPT !.assigned_codepoint = cp + (i - 1)]]
        exc == IF symbols = <<>> THEN "UnboundLocalError"
               ELSE IF Overflow(cp) THEN "OverflowError"
               ELSE "none"
    IN [raised |-> exc,
        smufl_symbols |-> symbols,
        layout |-> IF exc = "none"
                   THEN [note_atoms |-> note_atoms,
                         symbols |-> symbols,
                         notes_range |-> <<start, cp - 1>>,
                         symbols_range |-> <<cp, cp + Len(symbols) - 1>>]
                   ELSE NoLayout]

\* The result of a call: the exception raised ("none" if it returned), the
\* returned layout, and the symbol list of the AtomSpec after the call.
AssignCodepoints(s) ==
    LET start == s.pua_start
        note_atoms == SystemLoop(s.notation_systems, start)
        cp == start + Len(note_atoms)
        symbols == AssignSymbols(s.smufl_symbols)
        exc == IF Len(symbols) >= 2
                  /\ \E i \in DOMAIN symbols : symbols[i].smufl_codepoint = None
               THEN "TypeError"
               ELSE IF symbols = <<>> THEN "UnboundLocalError"
               ELSE IF Overflow(cp) THEN "OverflowError"
               ELSE "none"
    IN [raised |-> exc,
        smufl_symbols |-> symbols,
        layout |-> IF exc = "none"
                   THEN [note_atoms |-> note_atoms,
                         symbols |-> symbols,
                         notes_range |-> <<start, cp - 1>>,
                         symbols_range |-> SymbolsRange(symbols)]
                   ELSE NoLayout]

\* ------------------------------------------------------------------------
\* Stage 5: validate_layout
\* ------------------------------------------------------------------------
AllAtomCodepoints(l) ==
    [i \in DOMAIN l.note_atoms |-> l.note_atoms[i].assigned_codepoint]
    \o [i \in DOMAIN l.symbols |-> l.symbols[i].assigned_codepoint]

AllAssigned(codepoints) == \A i \in DOMAIN codepoints : codepoints[i] # None

\* Mutant: only neighbouring entries of the list are compared.
NoDuplicatesAdjacent(codepoints) ==
    \A i \in 1..(Len(codepoints) - 1) : codepoints[i] # codepoints[i + 1]

\* len(codepoints) == len(set(codepoints))
NoDuplicates(codepoints) == Len(codepoints) = Cardinality(Range(codepoints))

ValidCodepoint(cp) ==
    \/ (PUA_FIRST <= cp /\ cp <= PUA_CEILING)
    \/ (MUSIC_FIRST <= cp /\ cp <= MUSIC_LAST)

\* The exception validate_layout raises, "none" when it returns.
ValidateLayout(l) ==
    LET codepoints == AllAtomCodepoints(l)
    IN IF ~AllAssigned(codepoints) THEN "ValueError: not assigned"
       ELSE IF ~NoDuplicates(codepoints) THEN "ValueError: duplicate codepoints"
       ELSE IF \E i \in DOMAIN codepoints : ~ValidCodepoint(codepoints[i])
            THEN "ValueError: outside valid ranges"
       ELSE IF None \in Range(l.notes_range) \cup Range(l.symbols_range)
            THEN "TypeError"
       ELSE "none"

\* The violations named in the message of the ValueError: the index of the
\* first unassigned atom, or every duplicated codepoint, or the first
\* codepoint outside the valid ranges; none when no ValueError is raised.
ValidateLayoutReport(l) ==
    LET codepoints == AllAtomCodepoints(l)
        unassigned == {i \in DOMAIN codepoints : codepoints[i] = None}
        duplicates == {codepoints[i] : i \in {j \in DOMAIN codepoints :
                          \E k \in DOMAIN codepoints : k # j /\ codepoints[k] = codepoints[j]}}
        invalid == {i \in DOMAIN codepoints : ~ValidCodepoint(codepoints[i])}
        first(S) == CHOOSE i \in S : \A j \in S : i <= j
    IN IF unassigned # {} THEN {[check |-> "assigned", at |-> first(unassigned)]}
       ELSE IF ~NoDuplicates(codepoints)
            THEN {[check |-> "duplicate", at |-> cp] : cp \in duplicates}
       ELSE IF invalid # {}
            THEN {[check |-> "range", at |-> codepoints[first(invalid)]]}
       ELSE {}

\* ------------------------------------------------------------------------
\* Stage 4: build_mapping_json
\* ------------------------------------------------------------------------
\* hex(n) without its "0x" prefix: the base-16 digits, most significant first.
RECURSIVE Hex(_)
Hex(n) == IF n < 16 THEN <<n>> ELSE Hex(n \div 16) \o <<n % 16>>

VariantNames == <<"1_dot_above", "2_dots_above", "1_dot_below", "2_dots_below">>
OctaveShifts == <<1, 2, -1, -2>>

NoVariants == [n \in {} |-> 0]

\* notes_map[key]["variants"][name] = {...} for one atom; a new key is
\* appended, an existing one updated in place.
NotesMapPut(notes_map, atom) ==
    LET name == VariantNames[atom.variant_index + 1]
        value == [codepoint |-> Hex(atom.assigned_codepoint),
                  octave_shift |-> OctaveShifts[atom.variant_index + 1]]
        put(variants) == [n \in DOMAIN variants \cup {name} |->
                            IF n = name THEN value ELSE variants[n]]
    IN IF \E i \in DOMAIN notes_map :
              /\ notes_map[i].system = atom.system
              /\ notes_map[i].character = atom.character
       THEN [i \in DOMAIN notes_map |->
               IF notes_map[i].system = atom.system
                  /\ notes_map[i].character = atom.character
               THEN [notes_map[i] EXCEPT !.variants = put(@)]
               ELSE notes_map[i]]
       ELSE Append(notes_map, [system |-> atom.system, character |-> atom.character,
                               variants |-> put(NoVariants)])

RECURSIVE NotesMap(_, _)
NotesMap(note_atoms, notes_map) ==
    IF note_atoms = <<>> THEN notes_map
    ELSE NotesMap(Tail(note_atoms), NotesMapPut(notes_map, Head(note_atoms)))

NoMapping == [notes |-> <<>>, symbols |-> <<>>, pua_allocation |-> <<>>,
              total_notes |-> 0, total_symbols |-> 0]

\* Mutant: the bracket names fall through to "ornament".
SymbolKindWithoutBracket(glyph_name) ==
    IF StartsWith(glyph_name, Accidental) \/ StartsWith(glyph_name, Uni266)
    THEN "accidental"
    ELSE IF StartsWith(glyph_name, Barline) \/ StartsWith(glyph_name, UniE0)
    THEN "barline"
    ELSE "ornament"

SymbolKind(glyph_name) ==
    IF StartsWith(glyph_name, Accidental) \/ StartsWith(glyph_name, Uni266)
    THEN "accidental"
    ELSE IF StartsWith(glyph_name, Barline) \/ StartsWith(glyph_name, UniE0)
    THEN "barline"
    ELSE IF StartsWith(glyph_name, Bracket) \/ StartsWith(glyph_name, ReversedBracket)
    THEN "bracket"
    ELSE "ornament"

\* The exception raised ("none" if it returned) and the mapping returned;
\* hex(None) is a TypeError.
BuildMappingJson(s, l) ==
    LET notes_list == NotesMap(l.note_atoms, <<>>)
        hexable == /\ \A i \in DOMAIN l.note_atoms : l.note_atoms[i].assigned_codepoint # None
                   /\ \A i \in DOMAIN l.symbols : l.symbols[i].assigned_codepoint # None
                   /\ None \notin Range(l.notes_range) \cup Range(l.symbols_range)
    IN IF ~hexable THEN [raised |-> "TypeError", mapping |-> NoMapping]
       ELSE [raised |-> "none",
             mapping |-> [notes |-> notes_list,
                          symbols |-> [i \in DOMAIN l.symbols |->
                              [name |-> l.symbols[i].glyph_name,
                               kind |-> SymbolKind(l.symbols[i].glyph_name),
                               label |-> l.symbols[i].label,
                               codepoint |-> Hex(l.symbols[i].assigned_codepoint)]],
                          pua_allocation |-> <<Hex(l.notes_range[1]), Hex(l.notes_range[2]),
                                               Hex(l.symbols_range[1]), Hex(l.symbols_range[2])>>,
                          total_notes |-> Len(notes_list),
                          total_symbols |-> Len(l.symbols)]]

\* ------------------------------------------------------------------------
\* Stage 3: build_font and its composite helpers
\*
\* A glyph is [glyphname, bbox, width, refs]; bbox is <<min_x, min_y, max_x,
\* max_y>>.  A reference is [glyph, scale, x, y] for the transform
\* (scale, 0, 0, scale, x, y), with scale in percent and x, y in hundredths
\* of a font unit, which holds the products by 0.8, 0.6, 0.05, ... exactly.
\* The bounding box of a composite is never read and is kept as <<>>.
\* ------------------------------------------------------------------------
Ord(char) ==
    CASE char = "#" -> 35 [] char = "." -> 46 [] char = "1" -> 49 [] char = "2" -> 50
      [] char = "3" -> 51 [] char = "4" -> 52 [] char = "5" -> 53
      [] char = "6" -> 54 [] char = "7" -> 55 [] char = "C" -> 67

InMusicOrPua(cp) == (MUSIC_FIRST <= cp /\ cp <= MUSIC_LAST) \/ cp >= PUA_FIRST

\* The glyphs of Noto Music in U+1D100..U+1D1FF or from U+E000 on are
\* created in the font at the same codepoint, outline and (non-zero) width
\* copied.
ImportNotoMusic(f, noto_music_font) ==
    LET imported == {cp \in DOMAIN noto_music_font : InMusicOrPua(cp)}
    IN [cp \in DOMAIN f \cup imported |->
          IF cp \in imported THEN noto_music_font[cp] ELSE f[cp]]

SyntheticDot == [glyphname |-> <<"period">>, bbox |-> <<0, 0, 100, 100>>,
                 width |-> 150, refs |-> <<>>]

\* The period glyph of the font, or the synthetic square when it has none.
WithDotGlyph(f) ==
    IF Ord(".") \in DOMAIN f THEN f
    ELSE [cp \in DOMAIN f \cup {Ord(".")} |->
            IF cp = Ord(".") THEN SyntheticDot ELSE f[cp]]

SetGlyph(f, codepoint, glyph) ==
    [cp \in DOMAIN f \cup {codepoint} |-> IF cp = codepoint THEN glyph ELSE f[cp]]

BaseRef(base_glyph) == [glyph |-> base_glyph.glyphname, scale |-> 100, x |-> 0, y |-> 0]

\* Mutant: the dot is centred over the base glyph without the 0.8 * dot_width
\* nudge.
DotXOffsetCentred(char, base_bbox, dot_bbox) ==
    LET base_width == base_bbox[3] - base_bbox[1]
        dot_width == dot_bbox[3] - dot_bbox[1]
        centred == 100 * base_bbox[1] + 50 * (base_width - dot_width) - 100 * dot_bbox[1]
    IN centred
       - (IF char = "2" THEN 10 * base_width ELSE 0)
       - (IF char \in {"3", "5", "6"} THEN 17 * base_width ELSE 0)
       + (IF char = "4" THEN 4 * base_width ELSE 0)
       - (IF char = "7" THEN 4 * base_width ELSE 0)

\* create_accidental_octave_composites: dot_x_offset, with the
\* per-character corrections.
DotXOffset(char, base_bbox, dot_bbox) ==
    LET bx_min == base_bbox[1]
        base_width == base_bbox[3] - base_bbox[1]
        dx_min == dot_bbox[1]
        dot_width == dot_bbox[3] - dot_bbox[1]
        centred == 100 * bx_min + 50 * (base_width - dot_width) - 100 * dx_min
                   + 80 * dot_width
    IN centred
       - (IF char = "2" THEN 10 * base_width ELSE 0)
       - (IF char \in {"3", "5", "6"} THEN 17 * base_width ELSE 0)
       + (IF char = "4" THEN 4 * base_width ELSE 0)
       - (IF char = "7" THEN 4 * base_width ELSE 0)

\* create_accidental_octave_composites: the dot references of octave
\* variant variant_index.
DotRefs(variant_index, dot_x_offset, base_bbox, dot_glyph, geometry) ==
    LET by_min == base_bbox[2]
        by_max == base_bbox[4]
        dy_min == dot_glyph.bbox[2]
        dy_max == dot_glyph.bbox[4]
        dot_height == dy_max - dy_min
        double_dot_scale == 60
        double_dot_spacing == 2 * dot_height * double_dot_scale
        dot_adjustment == 5 * (by_max - by_min)
        above == 100 * (by_max - dy_min + geometry.dot_above_gap) + dot_adjustment
        below == 100 * (by_min - dy_max - geometry.dot_below_gap) - dot_adjustment
        dot(scale, y) == [glyph |-> dot_glyph.glyphname, scale |-> scale,
                          x |-> dot_x_offset, y |-> y]
    IN CASE variant_index = 0 -> <<dot(100, above)>>
         [] variant_index = 1 -> <<dot(double_dot_scale, above),
                                   dot(double_dot_scale, above + double_dot_spacing)>>
         [] variant_index = 2 -> <<dot(100, below)>>
         [] variant_index = 3 -> <<dot(double_dot_scale, below),
                                   dot(double_dot_scale, below - double_dot_spacing)>>
         [] OTHER -> <<>>

\* build_font: dot_x_offset of a note atom, corrected character by
\* character.
NoteDotXOffset(atom, base_bbox, dot_bbox) ==
    LET bx_min == base_bbox[1]
        bx_max == base_bbox[3]
        dx_min == dot_bbox[1]
        dx_max == dot_bbox[3]
        base_width == bx_max - bx_min
        dot_width == dx_max - dx_min
        offset0 == 100 * bx_min + 50 * (base_width - dot_width) - 100 * dx_min
                   + 80 * dot_width
        offset1 == IF atom.character = "2" THEN offset0 - 10 * base_width ELSE offset0
        offset2 == IF atom.character \in {"3", "5", "6"}
                   THEN offset1 - 17 * base_width ELSE offset1
        offset3 == IF atom.character = "4" THEN offset2 + 4 * base_width ELSE offset2
    IN IF atom.character = "7" THEN offset3 - 4 * base_width ELSE offset3

\* Mutant: the two dots of a double-dot variant are spaced by two unscaled
\* dot heights.
NoteDotRefsUnscaledSpacing(atom, dot_x_offset, base_bbox, dot_glyph, geometry) ==
    LET dot_height == dot_glyph.bbox[4] - dot_glyph.bbox[2]
        dot_adjustment == 5 * (base_bbox[4] - base_bbox[2])
        above == 100 * (base_bbox[4] - dot_glyph.bbox[2] + geometry.dot_above_gap)
                 + dot_adjustment
        below == 100 * (base_bbox[2] - dot_glyph.bbox[4] - geometry.dot_below_gap)
                 - dot_adjustment
        ref(scale, y) == [glyph |-> dot_glyph.glyphname, scale |-> scale,
                          x |-> dot_x_offset, y |-> y]
    IN IF atom.variant_index = 0 THEN <<ref(100, above)>>
       ELSE IF atom.variant_index = 1
       THEN <<ref(60, above), ref(60, above + 200 * dot_height)>>
       ELSE IF atom.variant_index = 2 THEN <<ref(100, below)>>
       ELSE IF atom.variant_index = 3
       THEN <<ref(60, below), ref(60, below - 200 * dot_height)>>
       ELSE <<>>

\* build_font: the dot references added for the variant of a note atom.
NoteDotRefs(atom, dot_x_offset, base_bbox, dot_glyph, geometry) ==
    LET by_min == base_bbox[2]
        by_max == base_bbox[4]
        dy_min == dot_glyph.bbox[2]
        dy_max == dot_glyph.bbox[4]
        dot_height == dy_max - dy_min
        dot_name == dot_glyph.glyphname
        double_dot_scale == 60
        double_dot_spacing == 2 * dot_height * double_dot_scale
        char_height == by_max - by_min
        dot_adjustment == 5 * char_height
        ref(scale, y_pos) == [glyph |-> dot_name, scale |-> scale,
                              x |-> dot_x_offset, y |-> y_pos]
    IN IF atom.variant_index = 0
       THEN LET y_pos == 100 * (by_max - dy_min + geometry.dot_above_gap) + dot_adjustment
            IN <<ref(100, y_pos)>>
       ELSE IF atom.variant_index = 1
       THEN LET y_pos1 == 100 * (by_max - dy_min + geometry.dot_above_gap) + dot_adjustment
                y_pos2 == y_pos1 + double_dot_spacing
            IN <<ref(double_dot_scale, y_pos1), ref(double_dot_scale, y_pos2)>>
       ELSE IF atom.variant_index = 2
       THEN LET y_pos == 100 * (by_min - dy_max - geometry.dot_below_gap) - dot_adjustment
            IN <<ref(100, y_pos)>>
       ELSE IF atom.variant_index = 3
       THEN LET y_pos1 == 100 * (by_min - dy_max - geometry.dot_below_gap) - dot_adjustment
                y_pos2 == y_pos1 - double_dot_spacing
            IN <<ref(double_dot_scale, y_pos1), ref(double_dot_scale, y_pos2)>>
       ELSE <<>>

\* The octave variant glyph build_font creates for a note atom.
NoteGlyph(atom, base_glyph, dot_glyph, geometry) ==
    [glyphname |-> <<atom.character, "v", atom.variant_index>>,
     bbox |-> <<>>,
     width |-> base_glyph.width,
     refs |-> <<BaseRef(base_glyph)>>
              \o NoteDotRefs(atom,
                             NoteDotXOffset(atom, base_glyph.bbox, dot_glyph.bbox),
                             base_glyph.bbox, dot_glyph, geometry)]

\* int(n / 2) for an integer n: Python truncates toward zero.
IntHalf(n) == IF n >= 0 THEN n \div 2 ELSE -((-n) \div 2)

\* create_accidental_composites: the accidental reference
\* (scale, 0, 0, scale, int(x_offset), int(y_offset)).
AccidentalRef(base_bbox, accidental_glyph, geometry) ==
    LET base_min_y == base_bbox[2]
        base_max_x == base_bbox[3]
        base_max_y == base_bbox[4]
        acc_min_x == accidental_glyph.bbox[1]
        acc_min_y == accidental_glyph.bbox[2]
        acc_max_y == accidental_glyph.bbox[4]
        x_offset == base_max_x - acc_min_x + geometry.accidental_x_offset
        y_offset == IntHalf(base_max_y + base_min_y - acc_max_y - acc_min_y
                            + 2 * geometry.accidental_y_offset)
    IN [glyph |-> accidental_glyph.glyphname, scale |-> geometry.accidental_scale,
        x |-> 100 * x_offset, y |-> 100 * y_offset]

AccidentalComposite(base_char, accidental_type, base_glyph, accidental_glyph, geometry) ==
    [glyphname |-> <<base_char, accidental_type>>,
     bbox |-> <<>>,
     width |-> base_glyph.width,
     refs |-> <<BaseRef(base_glyph),
                AccidentalRef(base_glyph.bbox, accidental_glyph, geometry)>>]

\* Mutant: the vertical offset is rounded down instead of truncated.
AccidentalOctaveRefFloor(base_bbox, accidental_glyph, geometry) ==
    LET acc_x_offset == base_bbox[3] - accidental_glyph.bbox[1]
                        + geometry.accidental_x_offset
        acc_y_offset == (base_bbox[4] + base_bbox[2] - accidental_glyph.bbox[4]
                         - accidental_glyph.bbox[2]
                         + 2 * geometry.accidental_y_offset) \div 2
    IN [glyph |-> accidental_glyph.glyphname, scale |-> geometry.accidental_scale,
        x |-> 100 * acc_x_offset, y |-> 100 * acc_y_offset]

\* create_accidental_octave_composites: the accidental reference
\* (acc_scale, 0, 0, acc_scale, int(acc_x_offset), int(acc_y_offset)).
AccidentalOctaveRef(base_bbox, accidental_glyph, geometry) ==
    LET by_min == base_bbox[2]
        bx_max == base_bbox[3]
        by_max == base_bbox[4]
        acc_min_x == accidental_glyph.bbox[1]
        acc_min_y == accidental_glyph.bbox[2]
        acc_max_y == accidental_glyph.bbox[4]
        acc_x_offset == bx_max - acc_min_x + geometry.accidental_x_offset
        acc_y_offset == IntHalf(by_max + by_min - acc_max_y - acc_min_y
                                + 2 * geometry.accidental_y_offset)
        acc_scale == geometry.accidental_scale
    IN [glyph |-> accidental_glyph.glyphname, scale |-> acc_scale,
        x |-> 100 * acc_x_offset, y |-> 100 * acc_y_offset]

\* Mutant: the width is the ink width bx_max - bx_min of the base glyph.
AccidentalOctaveCompositeInkWidth(base_char, acc_type, variant_index, base_glyph, accidental_glyph, dot_glyph, geometry) ==
    [glyphname |-> <<base_char, acc_type, VariantNames[variant_index + 1]>>,
     bbox |-> <<>>,
     width |-> base_glyph.bbox[3] - base_glyph.bbox[1],
     refs |-> <<BaseRef(base_glyph),
                AccidentalOctaveRef(base_glyph.bbox, accidental_glyph, geometry)>>
              \o DotRefs(variant_index,
                         DotXOffset(base_char, base_glyph.bbox, dot_glyph.bbox),
                         base_glyph.bbox, dot_glyph, geometry)]

AccidentalOctaveComposite(base_char, acc_type, variant_index, base_glyph, accidental_glyph, dot_glyph, geometry) ==
    [glyphname |-> <<base_char, acc_type, VariantNames[variant_index + 1]>>,
     bbox |-> <<>>,
     width |-> base_glyph.width,
     refs |-> <<BaseRef(base_glyph),
                AccidentalOctaveRef(base_glyph.bbox, accidental_glyph, geometry)>>
              \o DotRefs(variant_index,
                         DotXOffset(base_char, base_glyph.bbox, dot_glyph.bbox),
                         base_glyph.bbox, dot_glyph, geometry)]

\* ACCIDENTAL_RANGES.items(): the configured types that carry a range.
AccidentalRanges(s) == SelectSeq(s.accidental_composites.types, LAMBDA t : t.range # <<>>)

\* COMBINED_RANGES.items()
CombinedRanges ==
    <<[name |-> "sharp", range |-> <<58032, 58223>>],
      [name |-> "flat", range |-> <<58224, 58415>>],
      [name |-> "double_sharp", range |-> <<58416, 58607>>],
      [name |-> "double_flat", range |-> <<58608, 58799>>]>>

\* accidental_glyphs.get(accidental_type): the codepoint of the accidental
\* symbol glyph of that type in the font, None when the type is not
\* configured, has no smufl_symbol or the font has no glyph there.
AccidentalGlyphCodepoint(f, s, accidental_type) ==
    LET types == s.accidental_composites.types
        found == {i \in DOMAIN types :
                    /\ types[i].name = accidental_type
                    /\ types[i].smufl_symbol # None
                    /\ types[i].smufl_symbol \in DOMAIN f}
    IN IF found = {} THEN None ELSE types[CHOOSE i \in found : TRUE].smufl_symbol

NoFont == [cp \in {} |-> 0]

NoOutcome == [raised |-> "none", layout |-> NoLayout]

\* ------------------------------------------------------------------------
\* Inputs of main: atoms.yaml documents and the source fonts on disk
\* ------------------------------------------------------------------------
\* A parsed atoms.yaml: notation_systems is the list of one-key mappings
\* {system_name: characters} in document order.
DefaultConfig ==
    [notation_systems |-> <<[system_name |-> "number", characters |-> <<"1">>],
                            [system_name |-> "western", characters |-> <<"C">>]>>,
     smufl_symbols |-> <<SymbolDef(57952, 0)>>,
     geometry |-> DefaultGeometry,
     character_order |-> <<"1", "C">>,
     pua_start |-> 58880,
     accidental_composites |-> DefaultAccidentals]

\* Lists of system definitions; a name may occur more than once in the list.
SystemDefLists ==
    {defs \in SeqsUpTo([system_name : {"number", "western"},
                        characters : SeqsUpTo(CharPool, MaxChars)], MaxSystems) :
        TotalLen([i \in DOMAIN defs |-> defs[i].characters]) <= MaxChars}

LoadConfigs ==
    {[DefaultConfig EXCEPT !.notation_systems = defs, !.character_order = order] :
        defs \in SystemDefLists, order \in SeqsUpTo(CharPool, MaxChars)}

AllocConfigs ==
    {[DefaultConfig EXCEPT !.smufl_symbols = sy, !.pua_start = p] :
        sy \in SymbolDefLists, p \in PuaStarts}

Geometries ==
    {DefaultGeometry,
     [dot_above_gap |-> 50, dot_below_gap |-> 50, accidental_scale |-> 80,
      accidental_x_offset |-> 25, accidental_y_offset |-> -15],
     [dot_above_gap |-> 30, dot_below_gap |-> 70, accidental_scale |-> 100,
      accidental_x_offset |-> 0, accidental_y_offset |-> 7]}

AccidentalConfigs ==
    {DefaultAccidentals,
     [types |-> <<[SharpType EXCEPT !.smufl_symbol = None], FlatType>>],
     [types |-> <<SharpType, [FlatType EXCEPT !.range = <<>>]>>]}

FontConfigs ==
    {[DefaultConfig EXCEPT !.geometry = g, !.accidental_composites = a] :
        g \in Geometries, a \in AccidentalConfigs}

\* Glyph outlines by bounding box and advance width.
CharShapes == {[bbox |-> <<10, 0, 90, 700>>, width |-> 100],
               [bbox |-> <<5, -13, 60, 700>>, width |-> 572]}
DotShapes == {[bbox |-> <<12, -3, 51, 36>>, width |-> 64]}
SharpShapes == {[bbox |-> <<3, -251, 200, 500>>, width |-> 220],
                [bbox |-> <<-8, 100, 230, 900>>, width |-> 240]}
FlatShapes == {[bbox |-> <<0, -20, 180, 611>>, width |-> 190]}

ShapesAt(cp) ==
    CASE cp = 46 -> DotShapes
      [] cp = 119088 -> SharpShapes
      [] cp = 119085 -> FlatShapes
      [] OTHER -> CharShapes

\* The fonts whose glyphs sit at a subset of the codepoints cps; the glyph at
\* codepoint cp is named <<"uni", cp>>.
FontsOver(cps) ==
    {[cp \in DOMAIN shapes |->
         [glyphname |-> <<"uni", cp>>, bbox |-> shapes[cp].bbox,
          width |-> shapes[cp].width, refs |-> <<>>]] :
        shapes \in {sh \in UNION {[D -> UNION {ShapesAt(cp) : cp \in cps}] :
                                    D \in SUBSET cps} :
                       \A cp \in DOMAIN sh : sh[cp] \in ShapesAt(cp)}}

\* Inter.ttc with or without the digit, the letter and the period; Noto
\* Music with or without the sharp and the flat, and with a Latin digit.
BaseFonts == FontsOver({46, 49, 67})
NotoMusicFonts == {f \in FontsOver({49, 119085, 119088}) : 49 \in DOMAIN f}

FontFiles == [base_font : BaseFonts, noto_music_font : NotoMusicFonts]

DefaultFontFiles ==
    CHOOSE ff \in FontFiles :
        /\ DOMAIN ff.base_font = {46, 49, 67}
        /\ DOMAIN ff.noto_music_font = {49, 119085, 119088}

\* The number system holding one digit, with Inter.ttc carrying that digit,
\* the letter and a period of any height above the baseline.
Digits == {"1", "2", "3", "4", "5", "6", "7"}

RaisedDotShapes == {[bbox |-> <<0, 0, 40, 40>>, width |-> 60],
                    [bbox |-> <<10, 300, 50, 340>>, width |-> 60],
                    [bbox |-> <<10, -340, 50, -300>>, width |-> 60]}

GlyphAt(cp, shape) ==
    [glyphname |-> <<"uni", cp>>, bbox |-> shape.bbox, width |-> shape.width,
     refs |-> <<>>]

DigitConfig(digit) ==
    [DefaultConfig EXCEPT
        !.notation_systems = <<[system_name |-> "number", characters |-> <<digit>>],
                               [system_name |-> "western", characters |-> <<"C">>]>>,
        !.character_order = <<digit, "C">>]

DigitInputs ==
    {<<DigitConfig(digit),
       [base_font |-> (46 :> GlyphAt(46, dot) @@ Ord(digit) :> GlyphAt(Ord(digit), shape)
                       @@ 67 :> GlyphAt(67, shape)),
        noto_music_font |-> DefaultFontFiles.noto_music_font]>> :
        digit \in Digits, dot \in DotShapes \cup RaisedDotShapes, shape \in CharShapes}

Inputs ==
    ((LoadConfigs \cup AllocConfigs) \X {DefaultFontFiles}) \cup (FontConfigs \X FontFiles)
    \cup DigitInputs

Init ==
    /\ pc = "main_load"
    /\ \E input \in Inputs : config = input[1] /\ fontfiles = input[2]
    /\ args \in [validate_only : BOOLEAN, strict : BOOLEAN, debug_html : BOOLEAN]
    /\ spec = NoSpec
    /\ layout = NoLayout
    /\ raised = "none"
    /\ golden = <<>>
    /\ extended = 0
    /\ trace = <<>>
    /\ written = {}
    /\ exit_status = Running
    /\ mapping = NoMapping
    /\ font = NoFont
    /\ idx = <<1, 1>>
    /\ report = {}
    /\ previous = NoOutcome

\* ------------------------------------------------------------------------
\* main: the pipeline of the command line tool
\* ------------------------------------------------------------------------

Event(stage, ok) == [stage |-> stage, ok |-> ok]

\* Mutant: main goes on to the next stage whatever the stage raised.
StageEndsSwallowingError(events, exc, next_pc) ==
    /\ raised' = exc
    /\ trace' = trace \o events
    /\ pc' = next_pc
    /\ exit_status' = exit_status

\* A stage of main ended with exception exc ("none": it returned): main goes
\* on to next_pc, or prints the error and calls sys.exit(1).
StageEnds(events, exc, next_pc) ==
    /\ raised' = exc
    /\ trace' = trace \o events
    /\ pc' = IF exc = "none" THEN next_pc ELSE "exit"
    /\ exit_status' = IF exc = "none" THEN exit_status ELSE 1

MainLoadAtomSpec ==
    /\ pc = "main_load"
    /\ \E exists \in BOOLEAN :
          LET r == IF exists THEN LoadAtomSpec(config)
                   ELSE [raised |-> "FileNotFoundError", spec |-> NoSpec]
          IN /\ spec' = r.spec
             /\ StageEnds(<<Event("load_atom_spec", r.raised = "none")>>, r.raised,
                          "main_assign")
    /\ UNCHANGED <<layout, harnessVars, config, args, written, mapping, fontfiles,
                   font, idx>>

MainAssignCodepoints ==
    /\ pc = "main_assign"
    /\ LET r == AssignCodepoints(spec)
       IN /\ spec' = [spec EXCEPT !.smufl_symbols = r.smufl_symbols]
          /\ layout' = r.layout
          /\ StageEnds(<<Event("assign_codepoints", r.raised = "none")>>, r.raised,
                       "main_validate")
    /\ UNCHANGED <<harnessVars, config, args, written, mapping, fontfiles, font, idx>>

MainValidateLayout ==
    /\ pc = "main_validate"
    /\ LET exc == ValidateLayout(layout)
       IN StageEnds(<<Event("validate_layout", exc = "none")>>, exc, "main_validate_only")
    /\ report' = ValidateLayoutReport(layout)
    /\ UNCHANGED <<spec, layout, golden, extended, previous, config, args, written, mapping,
                   fontfiles, font, idx>>

\* Early exit for --validate-only: return 0.
MainValidateOnly ==
    /\ pc = "main_validate_only"
    /\ pc' = IF args.validate_only THEN "exit" ELSE "main_mapping"
    /\ exit_status' = IF args.validate_only THEN 0 ELSE exit_status
    /\ UNCHANGED <<spec, layout, raised, harnessVars, config, args, trace, written,
                   mapping, fontfiles, font, idx>>

MainBuildMappingJson ==
    /\ pc = "main_mapping"
    /\ LET r == BuildMappingJson(spec, layout)
       IN /\ mapping' = r.mapping
          /\ StageEnds(<<Event("build_mapping_json", r.raised = "none")>>, r.raised,
                       "main_fontforge")
    /\ UNCHANGED <<spec, layout, harnessVars, config, args, written, fontfiles,
                   font, idx>>

\* if not fontforge: sys.exit(1)
MainCheckFontForge ==
    /\ pc = "main_fontforge"
    /\ \E available \in BOOLEAN :
          StageEnds(<<Event("import fontforge", available)>>,
                    IF available THEN "none" ELSE "ImportError", "build_font")
    /\ UNCHANGED <<spec, layout, harnessVars, config, args, written, mapping,
                   fontfiles, font, idx>>

\* os.makedirs(output_dir, exist_ok=True), then build_font up to the note
\* loop: the base font is opened, the Noto Music glyphs imported and the dot
\* glyph found or drawn.
BuildFontOpen ==
    /\ pc = "build_font"
    /\ \E output_dir_made \in BOOLEAN :
       \E base_font \in {"loaded", "missing", "unreadable"} :
       \E noto_music \in {"loaded", "missing", "unreadable"} :
          LET exc == IF ~output_dir_made THEN "OSError"
                     ELSE IF base_font = "missing" THEN "FileNotFoundError"
                     ELSE IF base_font = "unreadable" THEN "RuntimeError"
                     ELSE IF noto_music = "unreadable" /\ args.strict THEN "RuntimeError"
                     ELSE "none"
          IN /\ written' = IF output_dir_made THEN written \cup {"output_dir"} ELSE written
             /\ font' = IF exc # "none" THEN font
                        ELSE WithDotGlyph(
                               IF noto_music = "loaded"
                               THEN ImportNotoMusic(fontfiles.base_font,
                                                    fontfiles.noto_music_font)
                               ELSE fontfiles.base_font)
             /\ StageEnds((IF output_dir_made THEN <<Event("build_font.enter", TRUE)>>
                           ELSE <<>>)
                          \o (IF exc = "none" THEN <<>> ELSE <<Event("build_font", FALSE)>>),
                          exc, "note_glyphs")
    /\ idx' = <<1, 1>>
    /\ UNCHANGED <<spec, layout, harnessVars, config, args, mapping, fontfiles>>

\* One iteration of "for i, atom in enumerate(layout.note_atoms)".
CreateNoteGlyph ==
    /\ pc = "note_glyphs"
    /\ LET i == idx[2]
       IN IF i > Len(layout.note_atoms)
          THEN /\ pc' = "accidental_composites"
               /\ idx' = <<1, 1>>
               /\ UNCHANGED <<font, raised, trace, exit_status>>
          ELSE LET atom == layout.note_atoms[i]
               IN IF Ord(atom.character) \notin DOMAIN font
                  THEN /\ StageEnds(<<Event("build_font", FALSE)>>, "RuntimeError", "exit")
                       /\ UNCHANGED <<font, idx>>
                  ELSE /\ font' = SetGlyph(font, atom.assigned_codepoint,
                                     NoteGlyph(atom, font[Ord(atom.character)],
                                               font[Ord(".")], spec.geometry))
                       /\ idx' = <<1, i + 1>>
                       /\ UNCHANGED <<pc, raised, trace, exit_status>>
    /\ UNCHANGED <<spec, layout, harnessVars, config, args, written, mapping, fontfiles>>

\* One step of the loops of create_accidental_composites: idx = <<t, i>> is
\* the accidental type and the character reached.
CreateAccidentalComposite ==
    /\ pc = "accidental_composites"
    /\ LET t == idx[1]
           i == idx[2]
           ranges == AccidentalRanges(spec)
           all_chars == spec.character_order
       IN IF t > Len(ranges)
          THEN /\ pc' = "accidental_octave_composites"
               /\ idx' = <<1, 1>>
               /\ UNCHANGED font
          ELSE LET accidental_type == ranges[t].name
                   pua_start == ranges[t].range[1]
                   acc == AccidentalGlyphCodepoint(font, spec, accidental_type)
               IN /\ pc' = pc
                  /\ IF acc = None \/ i > Len(all_chars)
                     THEN idx' = <<t + 1, 1>> /\ UNCHANGED font
                     ELSE /\ idx' = <<t, i + 1>>
                          /\ font' = IF Ord(all_chars[i]) \notin DOMAIN font THEN font
                                     ELSE SetGlyph(font, pua_start + (i - 1),
                                            AccidentalComposite(all_chars[i], accidental_type,
                                                font[Ord(all_chars[i])], font[acc],
                                                spec.geometry))
    /\ UNCHANGED <<spec, layout, raised, harnessVars, config, args, trace, written,
                   exit_status, mapping, fontfiles>>

\* One step of the loops of create_accidental_octave_composites: the four
\* octave variants of one character and accidental type; after the last
\* type build_font returns the font to main.
CreateAccidentalOctaveComposites ==
    /\ pc = "accidental_octave_composites"
    /\ LET t == idx[1]
           char_idx == idx[2]
           all_chars == spec.character_order
       IN IF t > Len(CombinedRanges)
          THEN /\ StageEnds(<<Event("build_font", TRUE)>>, "none", "font_generate")
               /\ UNCHANGED <<font, idx>>
          ELSE LET acc_type == CombinedRanges[t].name
                   pua_start == CombinedRanges[t].range[1]
                   acc == AccidentalGlyphCodepoint(font, spec, acc_type)
                   first == pua_start + (char_idx - 1) * 4
               IN /\ UNCHANGED <<pc, raised, trace, exit_status>>
                  /\ IF acc = None \/ char_idx > Len(all_chars)
                     THEN idx' = <<t + 1, 1>> /\ UNCHANGED font
                     ELSE /\ idx' = <<t, char_idx + 1>>
                          /\ font' =
                               IF Ord(all_chars[char_idx]) \notin DOMAIN font THEN font
                               ELSE [cp \in DOMAIN font \cup (first..(first + 3)) |->
                                       IF cp \in first..(first + 3)
                                       THEN AccidentalOctaveComposite(all_chars[char_idx],
                                                acc_type, cp - first,
                                                font[Ord(all_chars[char_idx])], font[acc],
                                                font[Ord(".")], spec.geometry)
                                       ELSE font[cp]]
    /\ UNCHANGED <<spec, layout, harnessVars, config, args, written, mapping, fontfiles>>

\* font.generate(output_font)
MainFontGenerate ==
    /\ pc = "font_generate"
    /\ \E saved \in BOOLEAN :
          /\ written' = IF saved THEN written \cup {"NotationFont.ttf"} ELSE written
          /\ StageEnds(<<Event("font.generate", saved)>>,
                       IF saved THEN "none" ELSE "OSError", "write_mapping")
    /\ UNCHANGED <<spec, layout, harnessVars, config, args, mapping, fontfiles, font, idx>>

\* json.dump(mapping, f)
MainWriteMapping ==
    /\ pc = "write_mapping"
    /\ \E saved \in BOOLEAN :
          /\ written' = IF saved THEN written \cup {"NotationFont-map.json"} ELSE written
          /\ StageEnds(<<Event("json.dump", saved)>>,
                       IF saved THEN "none" ELSE "OSError", "debug_html")
    /\ UNCHANGED <<spec, layout, harnessVars, config, args, mapping, fontfiles, font, idx>>

\* write_debug_html when --debug-html is given (a failure is only a
\* warning), then the summary and return 0.
MainWriteDebugHtml ==
    /\ pc = "debug_html"
    /\ \E saved \in BOOLEAN :
          /\ written' = IF args.debug_html /\ saved
                        THEN written \cup {"debug-specimen.html"} ELSE written
          /\ trace' = IF args.debug_html
                      THEN Append(trace, Event("write_debug_html", saved)) ELSE trace
    /\ exit_status' = 0
    /\ pc' = "exit"
    /\ UNCHANGED <<spec, layout, raised, harnessVars, config, args, mapping, fontfiles,
                   font, idx>>

Next ==
    \/ MainLoadAtomSpec
    \/ MainAssignCodepoints
    \/ MainValidateLayout
    \/ MainValidateOnly
    \/ MainBuildMappingJson
    \/ MainCheckFontForge
    \/ BuildFontOpen
    \/ CreateNoteGlyph
    \/ CreateAccidentalComposite
    \/ CreateAccidentalOctaveComposites
    \/ MainFontGenerate
    \/ MainWriteMapping
    \/ MainWriteDebugHtml

Spec == Init /\ [][Next]_vars

\* ------------------------------------------------------------------------
\* Allocation harness: assign_codepoints called on an AtomSpec, then the
\* specification edited by appending one character and allocated again
\* (the golden-snapshot regression of test_generator.py).
\* ------------------------------------------------------------------------
\* The variables of main are idle in the harnesses.
MainIdle ==
    /\ args = [validate_only |-> TRUE, strict |-> FALSE, debug_html |-> FALSE]
    /\ trace = <<>>
    /\ written = {}
    /\ exit_status = Running
    /\ mapping = NoMapping
    /\ fontfiles = [base_font |-> NoFont, noto_music_font |-> NoFont]
    /\ font = NoFont
    /\ idx = <<1, 1>>
    /\ report = {}
    /\ previous = NoOutcome

InitAlloc ==
    /\ pc = "assign"
    /\ config = DefaultConfig
    /\ MainIdle
    /\ spec \in AtomSpecs
    /\ layout = NoLayout
    /\ raised = "none"
    /\ golden = <<>>
    /\ extended = 0

CallAssignCodepoints ==
    /\ pc = "assign"
    /\ LET r == AssignCodepoints(spec)
       IN /\ raised' = r.raised
          /\ layout' = r.layout
          /\ spec' = [spec EXCEPT !.smufl_symbols = r.smufl_symbols]
          /\ pc' = IF r.raised = "none" THEN "assigned" ELSE "failed"
    /\ UNCHANGED <<golden, extended, previous, report, mainVars>>

\* atoms.yaml edited (one character appended to system k) and loaded again;
\* the note atoms of the run before are kept as the golden snapshot.
AppendCharacter ==
    /\ pc = "assigned"
    /\ extended = 0
    /\ \E k \in DOMAIN spec.notation_systems : \E c \in CharPool :
          /\ spec' = [spec EXCEPT
                          !.notation_systems[k].characters = Append(@, c),
                          !.character_order =
                              ExpectedOrder([spec.notation_systems EXCEPT
                                                ![k].characters = Append(@, c)]),
                          !.smufl_symbols = [i \in DOMAIN @ |->
                              [@[i] EXCEPT !.assigned_codepoint = None]]]
          /\ extended' = k
    /\ golden' = layout.note_atoms
    /\ layout' = NoLayout
    /\ pc' = "assign"
    /\ UNCHANGED <<raised, previous, report, mainVars>>

CallValidateLayout ==
    /\ pc = "assigned"
    /\ raised' = ValidateLayout(layout)
    /\ report' = ValidateLayoutReport(layout)
    /\ pc' = IF raised' = "none" THEN "validated" ELSE "invalid"
    /\ UNCHANGED <<spec, layout, golden, extended, previous, mainVars>>

\* assign_codepoints called a second time on the AtomSpec object a first
\* call has already used.
CallAssignCodepointsAgain ==
    /\ pc \in {"assigned", "failed"}
    /\ previous' = [raised |-> raised, layout |-> layout]
    /\ LET r == AssignCodepoints(spec)
       IN /\ raised' = r.raised
          /\ layout' = r.layout
          /\ spec' = [spec EXCEPT !.smufl_symbols = r.smufl_symbols]
    /\ pc' = "reassigned"
    /\ UNCHANGED <<golden, extended, report, mainVars>>

NextAlloc ==
    \/ CallAssignCodepoints
    \/ AppendCharacter
    \/ CallValidateLayout
    \/ CallAssignCodepointsAgain

SpecAlloc == InitAlloc /\ [][NextAlloc]_vars

\* ------------------------------------------------------------------------
\* Validation harness: validate_layout called on a CodepointLayout built by
\* hand, as the tests may do with the exported dataclass.
\* ------------------------------------------------------------------------
CodepointPool == {None, 57343, 57344, 63743, 63744, 119040, 119295, 119296}

\* The first n codepoints belong to note atoms, the others to symbols; the
\* ranges are those assign_codepoints computes for such lists.
LayoutOf(codepoints, n) ==
    LET notes == [i \in 1..n |->
                    [system |-> "number", character |-> "1",
                     variant_index |-> (i - 1) % NUM_VARIANTS,
                     assigned_codepoint |-> codepoints[i]]]
        symbols == [i \in 1..(Len(codepoints) - n) |->
                      [SMuFLSymbol(SymbolDef(codepoints[n + i], 0))
                          EXCEPT !.assigned_codepoint = codepoints[n + i]]]
    IN [note_atoms |-> notes,
        symbols |-> symbols,
        notes_range |-> IF n = 0 THEN <<PUA_FIRST, PUA_FIRST - 1>>
                        ELSE <<PUA_FIRST, PUA_FIRST + n - 1>>,
        symbols_range |-> SymbolsRange(symbols)]

Layouts ==
    {LayoutOf(cps, n) : <<cps, n>> \in
        {x \in SeqsUpTo(CodepointPool, MaxLayoutAtoms) \X (0..MaxLayoutAtoms) :
            x[2] <= Len(x[1])}}

InitValidate ==
    /\ pc = "assigned"
    /\ config = DefaultConfig
    /\ MainIdle
    /\ layout \in Layouts
    /\ spec = [notation_systems |-> <<>>, smufl_symbols |-> layout.symbols,
               geometry |-> DefaultGeometry, character_order |-> <<>>,
               pua_start |-> PUA_FIRST, accidental_composites |-> DefaultAccidentals]
    /\ raised = "none"
    /\ golden = <<>>
    /\ extended = 0

NextValidate == CallValidateLayout

SpecValidate == InitValidate /\ [][NextValidate]_vars

\* ------------------------------------------------------------------------
\* Mapping harness: build_mapping_json called on a layout with one symbol
\* of any glyph name.
\* ------------------------------------------------------------------------
NamePrefixes == {Accidental, Barline, Bracket, ReversedBracket, Uni266, UniE0, Ornament}
NameSuffixes == {<<>>, <<"S">>, <<"2">>}

\* Each prefix whole, without its first character, without its last
\* character and behind another character, followed by each suffix.
GlyphNames ==
    {stem \o suffix :
        stem \in UNION {{p, Tail(p), SubSeq(p, 1, Len(p) - 1), <<"x">> \o p} :
                           p \in NamePrefixes},
        suffix \in NameSuffixes}

InitMapping ==
    /\ pc = "mapping"
    /\ config = DefaultConfig
    /\ MainIdle
    /\ \E glyph_name \in GlyphNames : \E cp \in {57952, 119088} :
          layout = [note_atoms |-> VariantAtoms("number", "1", PUA_FIRST),
                    symbols |-> <<[glyph_name |-> glyph_name, label |-> "Symbol",
                                   smufl_codepoint |-> cp, codepoint_offset |-> 0,
                                   assigned_codepoint |-> cp]>>,
                    notes_range |-> <<PUA_FIRST, PUA_FIRST + 3>>,
                    symbols_range |-> <<cp, cp>>]
    /\ spec = [notation_systems |-> <<[system_name |-> "number", characters |-> <<"1">>]>>,
               smufl_symbols |-> layout.symbols,
               geometry |-> DefaultGeometry, character_order |-> <<"1">>,
               pua_start |-> PUA_FIRST, accidental_composites |-> DefaultAccidentals]
    /\ raised = "none"
    /\ golden = <<>>
    /\ extended = 0

CallBuildMappingJson ==
    /\ pc = "mapping"
    /\ LET r == BuildMappingJson(spec, layout)
       IN /\ mapping' = r.mapping
          /\ raised' = r.raised
    /\ pc' = "mapped"
    /\ UNCHANGED <<spec, layout, harnessVars, config, args, trace, written, exit_status,
                   fontfiles, font, idx>>

NextMapping == CallBuildMappingJson

SpecMapping == InitMapping /\ [][NextMapping]_vars

\* ------------------------------------------------------------------------
\* scripts/fonts/generate_noto.py: NotoMusicFontGenerator, from the empty
\* output font to the end of _generate_octave_variants.  config holds
\* char_order and pua_start, fontfiles.noto_music_font the source font and
\* font the output font; idx = <<count, i>> is the counter (extracted,
\* created) and the loop position.  References are kept by glyph name:
\* their transforms have no part in where glyphs are created.
\* ------------------------------------------------------------------------
NotoChars == {"1", "2", "3", "C"}

\* character_order strings, not empty (_validate_config), without repeats.
CharOrders ==
    {order \in SeqsUpTo(NotoChars, MaxNotoChars) :
        /\ order # <<>>
        /\ \A i, j \in DOMAIN order : i # j => order[i] # order[j]}

NotoSourceFonts ==
    {[cp \in D |-> GlyphAt(cp, [bbox |-> <<10, 0, 90, 700>>, width |-> 100])] :
        D \in SUBSET {Ord(c) : c \in NotoChars}}

InitNoto ==
    /\ pc = "extract_base"
    /\ \E order \in CharOrders : \E start \in {57344, 58880} :
          config = [DefaultConfig EXCEPT !.character_order = order, !.pua_start = start]
    /\ \E noto_font \in NotoSourceFonts :
          fontfiles = [base_font |-> NoFont, noto_music_font |-> noto_font]
    /\ args = [validate_only |-> FALSE, strict |-> FALSE, debug_html |-> FALSE]
    /\ spec = NoSpec
    /\ layout = NoLayout
    /\ raised = "none"
    /\ golden = <<>>
    /\ extended = 0
    /\ trace = <<>>
    /\ written = {}
    /\ exit_status = Running
    /\ mapping = NoMapping
    /\ font = NoFont
    /\ idx = <<0, 1>>
    /\ report = {}
    /\ previous = NoOutcome

\* font.createChar(codepoint, name) followed by clear(): the glyph already
\* at the codepoint is returned under its own name, else a new one is
\* made; its outline and references are wiped.
CreateCharCleared(f, codepoint, name) ==
    [glyphname |-> IF codepoint \in DOMAIN f THEN f[codepoint].glyphname ELSE name,
     bbox |-> <<>>, width |-> 0, refs |-> <<>>]

\* One iteration of the loop of _extract_base_characters, and after the
\* last character "return extracted > 0".
ExtractBaseCharacter ==
    /\ pc = "extract_base"
    /\ LET extracted == idx[1]
           i == idx[2]
           char_order == config.character_order
           noto_font == fontfiles.noto_music_font
       IN IF i > Len(char_order)
          THEN /\ pc' = IF extracted > 0 THEN "octave_variants" ELSE "noto_failed"
               /\ idx' = <<0, 1>>
               /\ UNCHANGED font
          ELSE LET base_char == char_order[i]
                   src_codepoint == Ord(base_char)
                   dst_codepoint == config.pua_start + (i - 1)
               IN /\ pc' = pc
                  /\ IF src_codepoint \notin DOMAIN noto_font
                     THEN idx' = <<extracted, i + 1>> /\ UNCHANGED font
                     ELSE LET src_bbox == noto_font[src_codepoint].bbox
                              dst_glyph ==
                                  [CreateCharCleared(font, dst_codepoint, <<"base", base_char>>)
                                      EXCEPT !.bbox = src_bbox,
                                             !.width = (src_bbox[3] - src_bbox[1]) + 50]
                          IN /\ font' = SetGlyph(font, dst_codepoint, dst_glyph)
                             /\ idx' = <<extracted + 1, i + 1>>
    /\ UNCHANGED <<spec, layout, raised, harnessVars, config, args, trace, written,
                   exit_status, mapping, fontfiles>>

\* The dot references of variant variant_idx, by glyph name.
NotoDotRefs(variant_idx) ==
    IF variant_idx \in {1, 3} THEN <<<<"period">>, <<"period">>>> ELSE <<<<"period">>>>

\* The output font after the variants 0..n-1 of the character at position
\* i (from 1) have been created from base_glyph.
RECURSIVE WithVariants(_, _, _, _, _, _)
WithVariants(f, start, i, base_char, base_glyph, n) ==
    IF n = 0 THEN f
    ELSE LET before == WithVariants(f, start, i, base_char, base_glyph, n - 1)
             variant_idx == n - 1
             base_cp == start + (i - 1)
             variant_cp == base_cp + ((i - 1) * 4) + variant_idx
             variant_glyph ==
                 [CreateCharCleared(before, variant_cp, <<base_char, "v", variant_idx>>)
                     EXCEPT !.refs = <<base_glyph.glyphname>> \o NotoDotRefs(variant_idx),
                            !.width = base_glyph.width]
         IN SetGlyph(before, variant_cp, variant_glyph)

\* One iteration of the character loop of _generate_octave_variants: a
\* missing base glyph raises and the character is skipped; a variant whose
\* codepoint is base_cp itself refers to the glyph it is built in, which
\* FontForge may refuse, leaving the cleared glyph and skipping the rest of
\* the character.
GenerateOctaveVariants ==
    /\ pc = "octave_variants"
    /\ LET created == idx[1]
           i == idx[2]
           char_order == config.character_order
       IN IF i > Len(char_order)
          THEN /\ pc' = "decompose"
               /\ UNCHANGED <<font, idx>>
          ELSE LET base_char == char_order[i]
                   base_cp == config.pua_start + (i - 1)
               IN /\ pc' = pc
                  /\ IF base_cp \notin DOMAIN font
                     THEN idx' = <<created, i + 1>> /\ UNCHANGED font
                     ELSE \/ /\ font' = WithVariants(font, config.pua_start, i, base_char,
                                                     font[base_cp], 4)
                             /\ idx' = <<created + 4, i + 1>>
                          \/ /\ i = 1
                             /\ font' = SetGlyph(font, base_cp,
                                           CreateCharCleared(font, base_cp,
                                                             <<base_char, "v", 0>>))
                             /\ idx' = <<created, i + 1>>
    /\ UNCHANGED <<spec, layout, raised, harnessVars, config, args, trace, written,
                   exit_status, mapping, fontfiles>>

\* The composites in pua_start .. pua_start + 4 * len(char_order) - 1 are
\* decomposed, then "return created > 0".
DecomposeOctaveVariants ==
    /\ pc = "decompose"
    /\ LET created == idx[1]
           first == config.pua_start
           last == config.pua_start + 4 * Len(config.character_order) - 1
       IN /\ font' = [cp \in DOMAIN font |->
                        IF cp \in first..last /\ font[cp].refs # <<>>
                        THEN [font[cp] EXCEPT !.refs = <<>>]
                        ELSE font[cp]]
          /\ pc' = IF created > 0 THEN "noto_done" ELSE "noto_failed"
    /\ UNCHANGED <<spec, layout, raised, harnessVars, config, args, trace, written,
                   exit_status, mapping, fontfiles, idx>>

NextNoto ==
    \/ ExtractBaseCharacter
    \/ GenerateOctaveVariants
    \/ DecomposeOctaveVariants

SpecNoto == InitNoto /\ [][NextNoto]_vars

\* ------------------------------------------------------------------------
\* scripts/fonts/generate.py: create_comprehensive_font, from the loaded
\* font to the end of the sharp accidentals.  font is the font being
\* edited; idx = <<count, i>> is the counter (created,
\* accidentals_created) and the loop position.  A glyph the font lacks is
\* absent from font; a glyph whose boundingBox() is empty has bbox <<>>.
\* ------------------------------------------------------------------------
\* The first characters of ALL_CHARS.
ALL_CHARS == SubSeq(<<"1", "2", "3", "4", "5", "6", "7", "C">>, 1, MaxAllChars)

sharp_base_cp == 57840

SlotShapes == {[bbox |-> <<10, 0, 90, 700>>, width |-> 100],
               [bbox |-> <<>>, width |-> 100]}

\* The input fonts: each of the characters, the period and the sharp is
\* absent, present, or present without a bounding box.
InputFonts ==
    LET cps == {Ord(ALL_CHARS[i]) : i \in DOMAIN ALL_CHARS} \cup {Ord("."), Ord("#")}
    IN {[cp \in DOMAIN shapes |-> GlyphAt(cp, shapes[cp])] :
           shapes \in UNION {[D -> SlotShapes] : D \in SUBSET cps}}

InitComprehensive ==
    /\ pc = "prepare_dots"
    /\ font \in InputFonts
    /\ config = DefaultConfig
    /\ args = [validate_only |-> FALSE, strict |-> FALSE, debug_html |-> FALSE]
    /\ fontfiles = [base_font |-> NoFont, noto_music_font |-> NoFont]
    /\ spec = NoSpec
    /\ layout = NoLayout
    /\ raised = "none"
    /\ golden = <<>>
    /\ extended = 0
    /\ trace = <<>>
    /\ written = {}
    /\ exit_status = Running
    /\ mapping = NoMapping
    /\ idx = <<0, 1>>
    /\ report = {}
    /\ previous = NoOutcome

\* dot_glyph = font[ord('.')] and its bounding box, or return False.
PrepareDots ==
    /\ pc = "prepare_dots"
    /\ pc' = IF Ord(".") \notin DOMAIN font THEN "returned_false"
             ELSE IF font[Ord(".")].bbox = <<>> THEN "returned_false"
             ELSE "dotted_variants"
    /\ UNCHANGED <<spec, layout, raised, harnessVars, config, args, trace, written,
                   exit_status, mapping, fontfiles, font, idx>>

\* The dotted variant variant_idx of a base glyph.
DottedVariant(base_char, variant_idx, base_glyph, dot_glyph) ==
    LET bx_min == base_glyph.bbox[1]
        by_min == base_glyph.bbox[2]
        bx_max == base_glyph.bbox[3]
        by_max == base_glyph.bbox[4]
        dx_min == dot_glyph.bbox[1]
        dy_min == dot_glyph.bbox[2]
        dx_max == dot_glyph.bbox[3]
        dy_max == dot_glyph.bbox[4]
        base_width == bx_max - bx_min
        dot_width == dx_max - dx_min
        dot_height == dy_max - dy_min
        dot_x_offset == 100 * bx_min + 50 * (base_width - dot_width) - 100 * dx_min
        dot_spacing == dot_height + 100
        bbox_offset == 50
        above == by_max - dy_min + bbox_offset
        below == by_min - dy_max - bbox_offset
        dot(y_pos) == [glyph |-> dot_glyph.glyphname, scale |-> 100,
                       x |-> dot_x_offset, y |-> 100 * y_pos]
    IN [glyphname |-> <<base_char, "v", variant_idx>>,
        bbox |-> <<>>,
        width |-> base_glyph.width,
        refs |-> <<BaseRef(base_glyph)>>
                 \o (CASE variant_idx = 0 -> <<dot(above)>>
                       [] variant_idx = 1 -> <<dot(above), dot(above + dot_spacing)>>
                       [] variant_idx = 2 -> <<dot(below)>>
                       [] variant_idx = 3 -> <<dot(below), dot(below - dot_spacing)>>)]

\* decompose() on the composites of a codepoint range.
Decomposed(f, first, last) ==
    [cp \in DOMAIN f |->
        IF cp \in first..last /\ f[cp].refs # <<>>
        THEN [f[cp] EXCEPT !.refs = <<>>] ELSE f[cp]]

\* One iteration of the dotted variant loop; after the last character the
\* variants are decomposed and the sharp glyph is looked up.
CreateDottedVariants ==
    /\ pc = "dotted_variants"
    /\ LET created == idx[1]
           i == idx[2]
           pua_start == PUA_FIRST
       IN IF i > Len(ALL_CHARS)
          THEN /\ font' = Decomposed(font, pua_start, pua_start + Len(ALL_CHARS) * 4 - 1)
               /\ pc' = IF Ord("#") \in DOMAIN font THEN "sharp_accidentals"
                        ELSE "returned_false"
               /\ idx' = <<0, 1>>
          ELSE LET base_char == ALL_CHARS[i]
                   first == pua_start + (i - 1) * 4
               IN /\ pc' = pc
                  /\ IF Ord(base_char) \notin DOMAIN font
                     THEN idx' = <<created, i + 1>> /\ UNCHANGED font
                     ELSE IF font[Ord(base_char)].bbox = <<>>
                     THEN idx' = <<created, i + 1>> /\ UNCHANGED font
                     ELSE /\ idx' = <<created + 4, i + 1>>
                          /\ font' = [cp \in DOMAIN font \cup (first..(first + 3)) |->
                                        IF cp \in first..(first + 3)
                                        THEN DottedVariant(base_char, cp - first,
                                                 font[Ord(base_char)], font[Ord(".")])
                                        ELSE font[cp]]
    /\ UNCHANGED <<spec, layout, raised, harnessVars, config, args, trace, written,
                   exit_status, mapping, fontfiles>>

\* font.createChar(accidental_cp, accidental_name), clear() and the
\* references of the sharp composite of base_char: the glyph already at
\* the codepoint is reused under its own name.
SharpComposite(f, accidental_cp, base_char, base_glyph, sharp_glyph) ==
    LET composite == [glyphname |-> IF accidental_cp \in DOMAIN f
                                    THEN f[accidental_cp].glyphname
                                    ELSE <<base_char, "sharp">>,
                      bbox |-> <<>>, width |-> 0, refs |-> <<BaseRef(base_glyph)>>]
        sharp_bbox == sharp_glyph.bbox
        base_bbox == base_glyph.bbox
    IN IF sharp_bbox = <<>> \/ base_bbox = <<>> THEN composite
       ELSE LET sx_min == sharp_bbox[1]
                base_width == base_bbox[3] - base_bbox[1]
                sharp_x_offset == base_width + 50 - sx_min
            IN [composite EXCEPT
                   !.refs = Append(@, [glyph |-> sharp_glyph.glyphname, scale |-> 100,
                                       x |-> 100 * sharp_x_offset, y |-> 0]),
                   !.width = base_glyph.width + 200]

\* accidentals_created after the composite of a base glyph was built.
AccidentalsCreatedAfter(accidentals_created, base_glyph, sharp_glyph) ==
    IF sharp_glyph.bbox # <<>> /\ base_glyph.bbox # <<>>
    THEN accidentals_created + 1 ELSE accidentals_created

\* One iteration of the sharp accidental loop; after the last character
\* the composites counted are decomposed.
CreateSharpAccidental ==
    /\ pc = "sharp_accidentals"
    /\ LET accidentals_created == idx[1]
           i == idx[2]
           sharp_glyph == font[Ord("#")]
       IN IF i > Len(ALL_CHARS)
          THEN /\ font' = Decomposed(font, sharp_base_cp,
                                     sharp_base_cp + accidentals_created - 1)
               /\ pc' = "bravura_symbols"
               /\ UNCHANGED idx
          ELSE LET base_char == ALL_CHARS[i]
                   accidental_cp == sharp_base_cp + accidentals_created
               IN /\ pc' = pc
                  /\ IF Ord(base_char) \notin DOMAIN font
                     THEN idx' = <<accidentals_created, i + 1>> /\ UNCHANGED font
                     ELSE LET base_glyph == font[Ord(base_char)]
                          IN /\ font' = SetGlyph(font, accidental_cp,
                                            SharpComposite(font, accidental_cp, base_char,
                                                           base_glyph, sharp_glyph))
                             /\ idx' = <<AccidentalsCreatedAfter(accidentals_created,
                                                                 base_glyph, sharp_glyph),
                                         i + 1>>
    /\ UNCHANGED <<spec, layout, raised, harnessVars, config, args, trace, written,
                   exit_status, mapping, fontfiles>>

NextComprehensive ==
    \/ PrepareDots
    \/ CreateDottedVariants
    \/ CreateSharpAccidental

SpecComprehensive == InitComprehensive /\ [][NextComprehensive]_vars

\* ========================================================================
\* Properties
\* ========================================================================

\* The character occurrences of all systems in declaration order.
RECURSIVE CharacterOccurrences(_)
CharacterOccurrences(systems) ==
    IF systems = <<>> THEN <<>>
    ELSE [j \in DOMAIN Head(systems).characters |->
            [system |-> Head(systems).system_name,
             character |-> Head(systems).characters[j]]]
         \o CharacterOccurrences(Tail(systems))

\* C1: a returned layout holds exactly four note atoms per character
\* occurrence, in (system, character, variant) declaration order, and the
\* atom of the character at global position i and variant v has codepoint
\* pua_start + 4*i + v.
C1_SequentialNoteAllocation ==
    pc = "assigned" =>
        LET occ == CharacterOccurrences(spec.notation_systems)
            atoms == layout.note_atoms
        IN /\ Len(atoms) = 4 * Len(occ)
           /\ \A i \in 0..(Len(occ) - 1) : \A v \in 0..3 :
                 LET a == atoms[4 * i + v + 1]
                 IN /\ a.system = occ[i + 1].system
                    /\ a.character = occ[i + 1].character
                    /\ a.variant_index = v
                    /\ a.assigned_codepoint = spec.pua_start + 4 * i + v

\* C1 witness: two systems allocated from 0xE000; the first character has
\* 0xE000..0xE003 and the character of the second system 0xE004..0xE007.
C1_Witness ==
    /\ pc = "assigned"
    /\ spec.pua_start = 57344
    /\ Len(spec.notation_systems) = 2
    /\ Len(layout.note_atoms) = 8
    /\ layout.note_atoms[1].assigned_codepoint = 57344
    /\ layout.note_atoms[4].assigned_codepoint = 57347
    /\ layout.note_atoms[5].system = "western"
    /\ layout.note_atoms[5].assigned_codepoint = 57348

\* Number of atoms of the same system that precede atom p in its list.
AtomOrdinal(atoms, p) ==
    Cardinality({q \in 1..(p - 1) : atoms[q].system = atoms[p].system})

\* Atom p of the golden snapshot is present in the new list, as the same
\* (system, character occurrence, variant), with the same codepoint.
KeepsCodepoint(old, p, new) ==
    \E q \in DOMAIN new :
        /\ new[q].system = old[p].system
        /\ AtomOrdinal(new, q) = AtomOrdinal(old, p)
        /\ new[q].character = old[p].character
        /\ new[q].variant_index = old[p].variant_index
        /\ new[q].assigned_codepoint = old[p].assigned_codepoint

SystemIndex(name) == CHOOSE k \in DOMAIN SystemNames : SystemNames[k] = name

DistinctCodepoints(l) ==
    LET codepoints == AllAtomCodepoints(l)
    IN \A i, j \in DOMAIN codepoints : i # j => codepoints[i] # codepoints[j]

SomeAtomAboveCeiling(s) ==
    \E a \in Range(SystemLoop(s.notation_systems, s.pua_start)) :
        a.assigned_codepoint > PUA_CEILING

\* C8 as stated: assign_codepoints fails with the overflow error exactly
\* when some note atom would get a codepoint above 0xF8FF; a walk ending
\* exactly on 0xF8FF returns its layout.
C8_OverflowIffAtomAboveCeiling ==
    pc \in {"assigned", "failed"} =>
        ((raised = "OverflowError") <=> SomeAtomAboveCeiling(spec))

\* C9 as stated: a call of assign_codepoints, returning or raising, leaves
\* the AtomSpec it was given unchanged.
C9_AssignLeavesSpecUnchanged ==
    [][pc = "assign" => spec' = spec]_vars

\* C5 as stated: validate_layout returns without raising exactly when every
\* atom has a codepoint, no codepoint occurs twice over notes and symbols
\* together, and every codepoint lies in 0xE000..0xF8FF or 0x1D100..0x1D1FF.
C5_AcceptsIffAssignedUniqueInRange ==
    pc \in {"validated", "invalid"} =>
        LET cps == AllAtomCodepoints(layout)
        IN (raised = "none") <=>
              /\ \A i \in DOMAIN cps : cps[i] # None
              /\ \A i, j \in DOMAIN cps : i # j => cps[i] # cps[j]
              /\ \A i \in DOMAIN cps :
                    \/ cps[i] \in 57344..63743
                    \/ cps[i] \in 119040..119295

\* The first three stages of main, in call order.
FirstStages == <<"load_atom_spec", "assign_codepoints", "validate_layout">>

FirstStagesSucceeded ==
    /\ Len(trace) >= 3
    /\ \A i \in 1..3 : trace[i] = Event(FirstStages[i], TRUE)

FirstStageFailed ==
    \E i \in DOMAIN trace : trace[i].stage \in Range(FirstStages) /\ ~trace[i].ok

BuildFontCalled == \E i \in DOMAIN trace : trace[i].stage = "build_font.enter"

\* C4: in every run of main, files are written only after load_atom_spec,
\* assign_codepoints and validate_layout have all succeeded, in that order,
\* and only without --validate-only; a failure of one of the three stages
\* ends the run with exit status 1 before build_font is called or any file
\* is written; a --validate-only run ends after validation, with nothing
\* built and nothing written.
C4_OutputsOnlyAfterValidation ==
    /\ \A i \in DOMAIN trace : i <= 3 => trace[i].stage = FirstStages[i]
    /\ (written # {} \/ BuildFontCalled \/ font # NoFont)
          => (FirstStagesSucceeded /\ ~args.validate_only)
    /\ FirstStageFailed
          => /\ pc = "exit"
             /\ exit_status = 1
             /\ ~BuildFontCalled
             /\ written = {}
    /\ (args.validate_only /\ FirstStagesSucceeded /\ pc # "main_validate_only")
          => /\ pc = "exit"
             /\ exit_status = 0
             /\ Len(trace) = 3
             /\ written = {}
             /\ font = NoFont

C4_Witness ==
    /\ pc = "exit"
    /\ exit_status = 0
    /\ {"NotationFont.ttf", "NotationFont-map.json"} \subseteq written

IsNoteVariant(g) == g.refs # <<>> /\ Len(g.glyphname) = 3 /\ g.glyphname[2] = "v"
IsAccidentalComposite(g) == g.refs # <<>> /\ Len(g.glyphname) = 2
IsCombinedComposite(g) == g.refs # <<>> /\ Len(g.glyphname) = 3 /\ g.glyphname[2] # "v"

\* C6: every composite glyph in the font being built (octave variant,
\* accidental composite, combined accidental+octave composite) has the
\* advance width of the glyph of its base character.
C6_CompositeWidthIsBaseWidth ==
    \A cp \in DOMAIN font :
        font[cp].refs # <<>> => font[cp].width = font[Ord(font[cp].glyphname[1])].width

C6_Witness ==
    /\ pc = "font_generate"
    /\ \E a, b, c \in DOMAIN font :
          /\ IsNoteVariant(font[a])
          /\ IsAccidentalComposite(font[b])
          /\ IsCombinedComposite(font[c])
          /\ font[a].glyphname[1] = "1"
          /\ font[b].glyphname[1] = "C"
          /\ font[c].glyphname[1] = "C"
          /\ font[Ord("1")].width # font[Ord("C")].width

\* C7: for the same base character, accidental glyph and geometry, the
\* accidental reference (scale, x offset, y offset) of each combined
\* accidental+octave composite equals the one of the accidental-only
\* composite.
C7_CombinedKeepsAccidentalTransform ==
    \A b, c \in DOMAIN font :
        (/\ IsAccidentalComposite(font[b])
         /\ IsCombinedComposite(font[c])
         /\ font[b].glyphname[1] = font[c].glyphname[1]
         /\ font[b].glyphname[2] = font[c].glyphname[2])
            => font[c].refs[2] = font[b].refs[2]

C7_Witness ==
    /\ spec.geometry.accidental_scale = 80
    /\ \E b, c \in DOMAIN font :
          /\ IsAccidentalComposite(font[b])
          /\ IsCombinedComposite(font[c])
          /\ font[b].glyphname = <<"C", "sharp">>
          /\ font[c].glyphname = <<"C", "sharp", "2_dots_below">>
          /\ Len(font[c].refs) = 4
          /\ font[b].refs[2].y < 0
          /\ font[b].refs[2].y % 200 # 0

\* C10: load_atom_spec raises exactly when character_order differs from the
\* concatenation, in declaration order, of the character lists of all the
\* notation systems declared in atoms.yaml, and otherwise returns a spec
\* whose character_order is that concatenation.
DeclaredOrder ==
    Concat([i \in DOMAIN config.notation_systems |->
                config.notation_systems[i].characters])

C10_RaisesIffOrderDiffersFromDeclaration ==
    (Len(trace) = 1 /\ raised # "FileNotFoundError")
        => /\ (raised = "ValueError") <=> (config.character_order # DeclaredOrder)
           /\ raised = "none" => spec.character_order = DeclaredOrder

AssignReturned == \E i \in DOMAIN trace : trace[i] = Event("assign_codepoints", TRUE)

\* C11: a specification with an empty list of notation systems is rejected
\* by load_atom_spec or assign_codepoints; no layout is returned for it.
C11_EmptySystemListRejected ==
    config.notation_systems = <<>> => (~AssignReturned /\ layout = NoLayout)

\* Every place where the layout breaks one of the three checks.
AllViolations ==
    LET codepoints == AllAtomCodepoints(layout)
        assigned == {i \in DOMAIN codepoints : codepoints[i] # None}
    IN {[check |-> "assigned", at |-> i] : i \in DOMAIN codepoints \ assigned}
       \cup {[check |-> "duplicate", at |-> codepoints[i]] :
                i \in {j \in assigned : \E k \in assigned :
                                           k # j /\ codepoints[k] = codepoints[j]}}
       \cup {[check |-> "range", at |-> codepoints[i]] :
                i \in {j \in assigned : ~ValidCodepoint(codepoints[j])}}

\* C12: when the layout breaks the checks of validate_layout in more than
\* one place, the error names every violation.
C12_EveryViolationReported ==
    (pc = "invalid" /\ Cardinality(AllViolations) > 1) => report = AllViolations

\* C13: validate_layout rejects every layout whose note atom codepoints are
\* not one ascending range without gaps.
C13_GapsInNotesRejected ==
    pc = "validated"
        => \A i \in 1..(Len(layout.note_atoms) - 1) :
              layout.note_atoms[i + 1].assigned_codepoint
                  = layout.note_atoms[i].assigned_codepoint + 1

AtomsOf(system, character) ==
    {i \in DOMAIN layout.note_atoms :
        /\ layout.note_atoms[i].system = system
        /\ layout.note_atoms[i].character = character}

\* C14: in every layout assign_codepoints returns, each (system, character)
\* pair has exactly four note atoms, one for each variant index 0..3.
C14_FourVariantsPerPair ==
    pc = "assigned"
        => \A i \in DOMAIN layout.note_atoms :
              LET atoms == AtomsOf(layout.note_atoms[i].system,
                                   layout.note_atoms[i].character)
              IN /\ Cardinality(atoms) = 4
                 /\ {layout.note_atoms[j].variant_index : j \in atoms} = 0..3

NotesAndSymbols == pc = "assigned" /\ layout.note_atoms # <<>> /\ layout.symbols # <<>>

LastNoteCodepoint == layout.note_atoms[Len(layout.note_atoms)].assigned_codepoint

BuildFontReturned == \E i \in DOMAIN trace : trace[i] = Event("build_font", TRUE)

MissingOverlayGlyph ==
    \E i \in DOMAIN spec.accidental_composites.types :
        LET smufl_symbol == spec.accidental_composites.types[i].smufl_symbol
        IN smufl_symbol # None /\ smufl_symbol \notin DOMAIN font

\* C17: when the glyph of an accidental symbol is missing from the font,
\* build_font fails the run in strict mode; only in non-strict mode does it
\* skip the composites and return the font.
C17_MissingOverlayFatalWhenStrict ==
    (BuildFontReturned /\ MissingOverlayGlyph) => ~args.strict

\* C18: in non-strict mode a missing base character glyph does not abort
\* build_font: the atoms of that character are skipped and the glyph of
\* every other atom is still created.
C18_MissingBaseGlyphSkipsOnlyItsAtoms ==
    (~args.strict /\ pc = "exit" /\ font # NoFont)
        => /\ raised # "RuntimeError"
           /\ \A i \in DOMAIN layout.note_atoms :
                 Ord(layout.note_atoms[i].character) \in DOMAIN font
                     => layout.note_atoms[i].assigned_codepoint \in DOMAIN font

MappingBuilt == \E i \in DOMAIN trace : trace[i] = Event("build_mapping_json", TRUE)

RECURSIVE CountVariants(_)
CountVariants(notes) ==
    IF notes = <<>> THEN 0
    ELSE Cardinality(DOMAIN Head(notes).variants) + CountVariants(Tail(notes))

\* C19: build_mapping_json records every note atom: its codepoint stands
\* under the entry of its (system, character) at its variant name with
\* octave_shift +1, +2, -1, -2 for variant index 0, 1, 2, 3, and the notes
\* section holds as many codepoints as the layout has note atoms.
C19_MappingRecordsEveryNoteAtom ==
    MappingBuilt
        => /\ \A i \in DOMAIN layout.note_atoms :
                 LET atom == layout.note_atoms[i]
                     name == <<"1_dot_above", "2_dots_above", "1_dot_below",
                               "2_dots_below">>[atom.variant_index + 1]
                 IN \E e \in DOMAIN mapping.notes :
                       /\ mapping.notes[e].system = atom.system
                       /\ mapping.notes[e].character = atom.character
                       /\ name \in DOMAIN mapping.notes[e].variants
                       /\ mapping.notes[e].variants[name] =
                             [codepoint |-> Hex(atom.assigned_codepoint),
                              octave_shift |-> <<1, 2, -1, -2>>[atom.variant_index + 1]]
           /\ CountVariants(mapping.notes) = Len(layout.note_atoms)

\* C20: a second run of assign_codepoints over the AtomSpec object a first
\* run has used ends as the first did: the same exception, or an equal
\* layout (note atoms, symbols, notes range and symbols range).
C20_SecondRunEqualsFirst ==
    pc = "reassigned" => (raised = previous.raised /\ layout = previous.layout)

C20_Witness ==
    /\ pc = "reassigned"
    /\ raised = "none"
    /\ layout.note_atoms # <<>>
    /\ Len(layout.symbols) = 2
    /\ layout.symbols[1].assigned_codepoint # layout.symbols[2].assigned_codepoint

\* C21 as stated: the kind of a symbol is "accidental" for a name with an
\* accidental prefix, "barline" for a name with a barline prefix and
\* "ornament" for every other name.
C21_OtherNamesAreOrnaments ==
    pc = "mapped" =>
        \A i \in DOMAIN mapping.symbols :
            LET name == mapping.symbols[i].name
            IN mapping.symbols[i].kind =
                  IF StartsWith(name, Accidental) \/ StartsWith(name, Uni266)
                  THEN "accidental"
                  ELSE IF StartsWith(name, Barline) \/ StartsWith(name, UniE0)
                  THEN "barline"
                  ELSE "ornament"

\* C21 amended: the kind depends on the prefix of the name only and has
\* four values: "accidental" for the prefixes accidental and uni266,
\* "barline" for barline and uniE0, "bracket" for bracket and
\* reversedBracket, "ornament" for every other name.
C21_KindIsOneOfFourByPrefix ==
    pc = "mapped" =>
        \A i \in DOMAIN mapping.symbols :
            LET name == mapping.symbols[i].name
                kind == mapping.symbols[i].kind
                has(prefixes) == \E p \in prefixes : StartsWith(name, p)
            IN /\ kind = "accidental" <=> has({Accidental, Uni266})
               /\ kind = "barline" <=> has({Barline, UniE0})
               /\ kind = "bracket" <=> has({Bracket, ReversedBracket})
               /\ kind = "ornament" <=> ~has({Accidental, Uni266, Barline, UniE0,
                                              Bracket, ReversedBracket})

\* C21 witness: a symbol named reversedBracket... was classified "bracket".
C21_Witness ==
    /\ pc = "mapped"
    /\ Len(mapping.symbols) = 1
    /\ StartsWith(mapping.symbols[1].name, ReversedBracket)
    /\ mapping.symbols[1].kind = "bracket"

BuildFontCreates ==
    pc \in {"note_glyphs", "accidental_composites", "accidental_octave_composites"}

\* The codepoints at which the step creates a glyph.
CreatedNow == {cp \in DOMAIN font' : cp \notin DOMAIN font \/ font'[cp] # font[cp]}

\* C22: after validate_layout has accepted the layout, every glyph that
\* build_font creates (note variant, accidental composite, combined
\* composite) goes to a codepoint that holds no glyph yet and is not the
\* assigned codepoint of a symbol: no created glyph overwrites another.
C22_NoCreatedGlyphOverwritesAnother ==
    [][BuildFontCreates =>
          \A cp \in CreatedNow :
              /\ cp \notin DOMAIN font
              /\ \A i \in DOMAIN layout.symbols :
                    layout.symbols[i].assigned_codepoint # cp]_vars

\* C23: for an atoms.yaml with an empty symbol list (and notes that fit
\* below the ceiling) assign_codepoints returns a layout with symbols_range
\* (None, None), and validate_layout and build_mapping_json, when main
\* calls them on it, return as well.
C23_EmptySymbolListIsAccepted ==
    (config.smufl_symbols = <<>> /\ config.pua_start < 63000 /\ Len(trace) >= 2)
        => /\ trace[2] = Event("assign_codepoints", TRUE)
           /\ layout.symbols_range = <<None, None>>
           /\ \A i \in DOMAIN trace :
                 trace[i].stage \in {"validate_layout", "build_mapping_json"} => trace[i].ok

NoteVariants == {cp \in DOMAIN font : IsNoteVariant(font[cp])}

\* The glyph of the base character of a composite and the dot glyph.
BaseGlyphOf(g) == font[Ord(g.glyphname[1])]
DotGlyph == font[Ord(".")]

\* The references of a note variant that follow the base reference.
DotsOf(g) == SubSeq(g.refs, 2, Len(g.refs))

\* C24: variant 0 of a note atom carries one dot at unit scale with y
\* offset base_max_y - dot_min_y + dot_above_gap + 5% of the base bbox
\* height; variant 1 two dots at 60% scale, the first at that offset and
\* the second 2 * dot_height * 0.6 higher; variants 2 and 3 mirror this
\* from base_min_y - dot_max_y - dot_below_gap - 5% of the height, the
\* second dot 2 * dot_height * 0.6 lower.  Offsets in hundredths of a unit.
C24_DotVerticalPlacement ==
    \A cp \in NoteVariants :
        LET g == font[cp]
            v == g.glyphname[3]
            base_min_y == BaseGlyphOf(g).bbox[2]
            base_max_y == BaseGlyphOf(g).bbox[4]
            dot_min_y == DotGlyph.bbox[2]
            dot_max_y == DotGlyph.bbox[4]
            five_percent == 5 * (base_max_y - base_min_y)
            upper == 100 * (base_max_y - dot_min_y + spec.geometry.dot_above_gap)
                     + five_percent
            lower == 100 * (base_min_y - dot_max_y - spec.geometry.dot_below_gap)
                     - five_percent
            step == 120 * (dot_max_y - dot_min_y)
            dots == DotsOf(g)
            ys == [k \in DOMAIN dots |-> dots[k].y]
            scales == [k \in DOMAIN dots |-> dots[k].scale]
        IN /\ v = 0 => (ys = <<upper>> /\ scales = <<100>>)
           /\ v = 1 => (ys = <<upper, upper + step>> /\ scales = <<60, 60>>)
           /\ v = 2 => (ys = <<lower>> /\ scales = <<100>>)
           /\ v = 3 => (ys = <<lower, lower - step>> /\ scales = <<60, 60>>)

\* C24 witness: base bbox (10, 0, 90, 700), dot bbox (0, 0, 40, 40) and gap
\* 50 put the dot of variant 0 at 785, and the second dot of variant 3 was
\* placed as well.
C24_Witness ==
    /\ DOMAIN font # {}
    /\ spec.geometry.dot_above_gap = 50
    /\ \E a, b \in NoteVariants :
          /\ font[a].glyphname = <<"1", "v", 0>>
          /\ font[b].glyphname = <<"1", "v", 3>>
          /\ BaseGlyphOf(font[a]).bbox = <<10, 0, 90, 700>>
          /\ DotGlyph.bbox = <<0, 0, 40, 40>>
          /\ font[a].refs[2].y = 78500
          /\ Len(font[b].refs) = 3

CombinedComposites == {cp \in DOMAIN font : IsCombinedComposite(font[cp])}

\* Percent of the base bbox width by which the dots of a character are
\* shifted.
ShiftPercent(char) ==
    CASE char = "2" -> -10
      [] char \in {"3", "5", "6"} -> -17
      [] char = "4" -> 4
      [] char = "7" -> -4
      [] OTHER -> 0

\* base_min_x + (base bbox width - dot width)/2 - dot_min_x + 0.8 * dot
\* width, shifted by the percentage of the character; in hundredths.
ExpectedDotX(g) ==
    LET base_min_x == BaseGlyphOf(g).bbox[1]
        base_width == BaseGlyphOf(g).bbox[3] - BaseGlyphOf(g).bbox[1]
        dot_min_x == DotGlyph.bbox[1]
        dot_width == DotGlyph.bbox[3] - DotGlyph.bbox[1]
    IN 100 * base_min_x + 50 * (base_width - dot_width) - 100 * dot_min_x
       + 80 * dot_width + ShiftPercent(g.glyphname[1]) * base_width

AccidentalComposites == {cp \in DOMAIN font : IsAccidentalComposite(font[cp])}

\* The glyph a reference points to; source glyphs are named <<"uni", cp>>.
ReferencedGlyph(ref) == font[ref.glyph[2]]

\* C26: in every accidental composite the left ink edge of the accidental
\* after its transform, scale * accidental_min_x + offset_x, is the right
\* ink edge of the base character plus accidental_x_offset.  In hundredths.
C26_AccidentalLeftEdgeAtGap ==
    \A cp \in AccidentalComposites :
        LET ref == font[cp].refs[2]
            accidental_min_x == ReferencedGlyph(ref).bbox[1]
            base_max_x == BaseGlyphOf(font[cp]).bbox[3]
        IN ref.scale * accidental_min_x + ref.x
              = 100 * (base_max_x + spec.geometry.accidental_x_offset)

\* C27: a run of main that ends with exit status 1 has written neither the
\* font file nor the mapping JSON, and a finished run has written both or
\* none of the two.
C27_OutputsWrittenTogetherOrNotAtAll ==
    pc = "exit" =>
        /\ exit_status = 1 =>
              written \cap {"NotationFont.ttf", "NotationFont-map.json"} = {}
        /\ "NotationFont.ttf" \in written <=> "NotationFont-map.json" \in written

\* C30: every dot of a note variant lies outside the vertical ink extent of
\* the base glyph: after the transform its lowest point is at or above
\* base_max_y in variants 0 and 1 and its highest point at or below
\* base_min_y in variants 2 and 3.  In hundredths.
C30_DotsClearOfBaseInk ==
    \A cp \in NoteVariants :
        LET g == font[cp]
            dots == DotsOf(g)
        IN \A k \in DOMAIN dots :
              IF g.glyphname[3] \in {0, 1}
              THEN dots[k].scale * DotGlyph.bbox[2] + dots[k].y
                      >= 100 * BaseGlyphOf(g).bbox[4]
              ELSE dots[k].scale * DotGlyph.bbox[4] + dots[k].y
                      <= 100 * BaseGlyphOf(g).bbox[2]

NotoBaseCodepoints ==
    {config.pua_start + (i - 1) : i \in DOMAIN config.character_order}

\* C28: every octave variant of NotoMusicFontGenerator is created at a
\* codepoint that holds no glyph yet (no other variant, no base glyph) and
\* that is not pua_start + idx of any character.
C28_VariantsNeverTouchBaseGlyphs ==
    [][pc = "octave_variants" =>
          \A cp \in CreatedNow : cp \notin DOMAIN font /\ cp \notin NotoBaseCodepoints]_vars

\* C29: in scripts/fonts/generate.py the sharp composite of the i-th
\* character of ALL_CHARS (i from 0) is created at 0xE1F0 + i, whatever
\* glyphs and bounding boxes the font lacks, and at a codepoint where no
\* other character's sharp composite has been created.  idx[2] - 1 is i.
C29_SharpCompositeAtCharacterIndex ==
    [][(pc = "sharp_accidentals" /\ idx[2] <= Len(ALL_CHARS)) =>
          \A cp \in CreatedNow :
              cp = 57840 + (idx[2] - 1) /\ cp \notin DOMAIN font]_vars

====
